---- MODULE Spec2Model ----
(***************************************************************************)
(* Model of samplace_final.py: a Streamlit script over one SQLite table.   *)
(*                                                                         *)
(* The table `transactions` is `db` (what is committed on disk) and `pend` *)
(* (what the module-level connection sees: db plus the statements of its   *)
(* open, not yet committed transaction).  Python's sqlite3 opens a         *)
(* transaction implicitly before INSERT/UPDATE/DELETE and conn.commit()    *)
(* makes it durable.  One run of the script is the sequence of steps       *)
(* TopSection, the add handler, DisplaySection, the edit / delete handler; *)
(* a handler that changes a row is followed by the UPDATE loop and the     *)
(* commit of recalc_balance.  Amounts are whole RM, dates are              *)
(* <<year, month, day>> and a description is a sequence of characters.     *)
(***************************************************************************)
EXTENDS Integers, Sequences, FiniteSets

\* ids the AUTOINCREMENT key may hand out before the model stops adding rows
MaxId == 2

\* process stops a run of the crash specification goes through
MaxCrashes == 1

\* direct helper calls a run of the helper-level specification makes
MaxCalls == 4

Ids == 1..MaxId

\* values a user submits with the add or the edit form (date, description,
\* income, expenses): four submissions the checks accept, with equal and
\* different dates and a net of either sign, and one per way of failing them
MkForm(d, s, inc, exp) ==
    [trans_date |-> d, description |-> s, income |-> inc, expenses |-> exp]

Forms ==
    { MkForm(<<2024, 1, 1>>, <<"a">>, 100, 0),
      MkForm(<<2024, 1, 1>>, <<"a">>, 200, 0),
      MkForm(<<2024, 1, 2>>, <<"a">>, 0, 40),
      MkForm(<<2024, 1, 2>>, <<"a">>, 100, 0),
      MkForm(<<2024, 1, 1>>, <<>>, 100, 0),
      MkForm(<<2024, 1, 2>>, <<" ">>, 0, 40),
      MkForm(<<2024, 1, 1>>, <<"a">>, 0, 0) }

\* st.session_state defaults of the add form (lines 108-115)
DefaultForm ==
    [trans_date |-> <<2024, 1, 1>>, description |-> <<>>, income |-> 0, expenses |-> 0]

Events == {"none", "add", "edit", "delete"}

VARIABLES
    db,        \* committed rows: id -> [trans_date, description, income, expenses, balance]
    pend,      \* the connection's view: db plus the open transaction's writes
    nextId,    \* the id AUTOINCREMENT gives the next inserted row
    rowcount,  \* rows matched by the cursor's last INSERT/UPDATE/DELETE
    raised,    \* exception raised by the last helper call ("none": it returned)
    pc,        \* position of the script run ("idle": waiting for a UI event)
    ev,        \* the button that triggered this run / the helper last called
    form,      \* values submitted with the add or edit form
    row_id,    \* id parsed from the selectbox (0: none)
    df,        \* the script's DataFrame variable
    i,         \* rows of df whose UPDATE recalc_balance has executed
    views,     \* what this run rendered: summary, table, export, selector
    status,    \* the st.warning / st.success message of this run
    scen,      \* how far the run has followed the section-8 scenario (-1: left it)
    calls,     \* helper calls made directly (not through the UI) so far
    prev,      \* the helper called directly before the last one
    crashes    \* times the process has stopped in the middle of a run

ui == <<pc, form, df, i, views, status, scen, crashes>>

vars == <<db, pend, nextId, rowcount, raised, pc, ev, form, row_id, df, i, views,
          status, scen, calls, prev, crashes>>

----------------------------------------------------------------------------
\* Pure helpers

\* str(date) is zero-padded ISO text, which SQLite compares character by
\* character: that is the lexicographic order of <<year, month, day>>.
TextLess(a, b) ==
    \/ a[1] < b[1]
    \/ a[1] = b[1] /\ a[2] < b[2]
    \/ a[1] = b[1] /\ a[2] = b[2] /\ a[3] < b[3]

\* faulty variant: the query without its ORDER BY clause (rowid order)
RowBeforeById(t, x, y) == x < y

\* ORDER BY trans_date ASC over a rowid scan: equal dates keep rowid order
RowBefore(t, x, y) ==
    \/ TextLess(t[x].trans_date, t[y].trans_date)
    \/ t[x].trans_date = t[y].trans_date /\ x < y

DfRow(t, x) ==
    [id |-> x, trans_date |-> t[x].trans_date, description |-> t[x].description,
     income |-> t[x].income, expenses |-> t[x].expenses, balance |-> t[x].balance]

RECURSIVE SortRows(_, _)
SortRows(t, S) ==
    IF S = {} THEN <<>>
    ELSE LET x == CHOOSE a \in S : \A b \in S \ {a} : RowBefore(t, a, b)
         IN  <<DfRow(t, x)>> \o SortRows(t, S \ {x})

fetch_transactions(t) == SortRows(t, DOMAIN t)

\* faulty variant: the running total starts from the last stored balance instead of 0
RunningBalancesCarry(d) ==
    LET bal[k \in 0..Len(d)] ==
            IF k = 0 THEN (IF Len(d) > 0 THEN d[Len(d)].balance ELSE 0)
            ELSE bal[k - 1] + (d[k].income - d[k].expenses)
    IN  [k \in 1..Len(d) |-> [d[k] EXCEPT !.balance = bal[k]]]

\* lines 38-43: the running total, written into the balance column of df
RunningBalances(d) ==
    LET bal[k \in 0..Len(d)] ==
            IF k = 0 THEN 0 ELSE bal[k - 1] + (d[k].income - d[k].expenses)
    IN  [k \in 1..Len(d) |-> [d[k] EXCEPT !.balance = bal[k]]]

\* faulty variant: the UPDATE binds the DataFrame index of line 45 instead of row["id"]
WriteBalanceByIndex(t, d, k) ==
    IF (k - 1) \in DOMAIN t
    THEN [t EXCEPT ![k - 1].balance = d[k].balance]
    ELSE t

\* line 46 for row k of df: UPDATE ... SET balance = ? WHERE id = ?
WriteBalance(t, d, k) ==
    IF d[k].id \in DOMAIN t
    THEN [t EXCEPT ![d[k].id].balance = d[k].balance]
    ELSE t

RECURSIVE WriteBalances(_, _, _)
WriteBalances(t, d, k) ==
    IF k = 0 THEN t ELSE WriteBalance(WriteBalances(t, d, k - 1), d, k)

\* lines 51-56: the row add_transaction inserts, with its provisional balance
add_transaction(t, nid, f) ==
    LET cur == fetch_transactions(t)
        last_balance == IF Len(cur) > 0 THEN cur[Len(cur)].balance ELSE 0
        row == [trans_date |-> f.trans_date, description |-> f.description,
                income |-> f.income, expenses |-> f.expenses,
                balance |-> last_balance + f.income - f.expenses]
    IN  [x \in DOMAIN t \cup {nid} |-> IF x = nid THEN row ELSE t[x]]

\* line 60: DELETE ... WHERE id = ?
delete_transaction(t, rid) == [x \in DOMAIN t \ {rid} |-> t[x]]

\* faulty variant: the UPDATE statement leaves income and expenses out of its SET list
update_transaction_no_amounts(t, rid, f) ==
    IF rid \in DOMAIN t
    THEN [t EXCEPT ![rid].trans_date = f.trans_date, ![rid].description = f.description]
    ELSE t

\* lines 64-68: UPDATE ... SET trans_date, description, income, expenses WHERE id = ?
update_transaction(t, rid, f) ==
    IF rid \in DOMAIN t
    THEN [t EXCEPT ![rid] = [trans_date |-> f.trans_date, description |-> f.description,
                             income |-> f.income, expenses |-> f.expenses,
                             balance |-> t[rid].balance]]
    ELSE t

\* rows a DELETE / UPDATE ... WHERE id = ? matches
Matched(t, rid) == IF rid \in DOMAIN t THEN 1 ELSE 0

RECURSIVE LStrip(_)
LStrip(s) == IF s # <<>> /\ Head(s) = " " THEN LStrip(Tail(s)) ELSE s

RECURSIVE RStrip(_)
RStrip(s) ==
    IF s # <<>> /\ s[Len(s)] = " " THEN RStrip(SubSeq(s, 1, Len(s) - 1)) ELSE s

Strip(s) == RStrip(LStrip(s))

\* faulty variant: the description check is missing
FormWarningAmountsOnly(f) ==
    IF f.income = 0 /\ f.expenses = 0 THEN "warn_amounts" ELSE "none"

\* faulty variant: the amounts check is missing
FormWarningDescriptionOnly(f) ==
    IF Strip(f.description) = <<>> THEN "warn_description" ELSE "none"

\* lines 125-128 and 180-183: which warning, if any, the form gets
FormWarning(f) ==
    IF Strip(f.description) = <<>> THEN "warn_description"
    ELSE IF f.income = 0 /\ f.expenses = 0 THEN "warn_amounts"
    ELSE "none"

RECURSIVE SumIncome(_)
SumIncome(d) == IF d = <<>> THEN 0 ELSE Head(d).income + SumIncome(Tail(d))

RECURSIVE SumExpenses(_)
SumExpenses(d) == IF d = <<>> THEN 0 ELSE Head(d).expenses + SumExpenses(Tail(d))

\* lines 90-95
Summary(d) ==
    IF d # <<>> THEN <<SumIncome(d), SumExpenses(d), d[Len(d)].balance>>
    ELSE <<0, 0, 0>>

\* lines 166-167: one label per row of df; line 169 parses the id back out
SelectorOptions(d) ==
    [k \in 1..Len(d) |->
        <<d[k].id, d[k].trans_date, d[k].description, d[k].income, d[k].expenses>>]

\* faulty variant: the selectbox yields the position of the chosen row instead of its id
SelectableIdsByPosition(d) == 1..Len(d)

SelectableIds(d) == { SelectorOptions(d)[k][1] : k \in 1..Len(d) }

NoViews == [summary |-> <<>>, table |-> <<>>, export |-> <<>>, selector |-> <<>>]

----------------------------------------------------------------------------
Init ==
    /\ db = <<>>
    /\ pend = <<>>
    /\ nextId = 1
    /\ rowcount = 0
    /\ raised = "none"
    /\ pc = "idle"
    /\ ev = "none"
    /\ form = DefaultForm
    /\ row_id = 0
    /\ df = <<>>
    /\ i = 0
    /\ views = NoViews
    /\ status = "none"
    /\ scen = 0
    /\ calls = 0
    /\ prev = "none"
    /\ crashes = 0


----------------------------------------------------------------------------
\* The scenario of the specification's section 8, as the user actions it lists
C7_Scenario ==
    << [op |-> "add", id |-> 0, trans_date |-> <<2024, 1, 1>>, income |-> 100, expenses |-> 0],
       [op |-> "add", id |-> 0, trans_date |-> <<2024, 1, 2>>, income |-> 0, expenses |-> 40],
       [op |-> "edit", id |-> 1, trans_date |-> <<2024, 1, 1>>, income |-> 200, expenses |-> 0],
       [op |-> "delete", id |-> 2, trans_date |-> <<>>, income |-> 0, expenses |-> 0] >>

C7_Advance(s, a) ==
    IF s \in 0..(Len(C7_Scenario) - 1) /\ a = C7_Scenario[s + 1] THEN s + 1 ELSE -1

FormAction(op, rid, f) ==
    [op |-> op, id |-> rid, trans_date |-> f.trans_date, income |-> f.income,
     expenses |-> f.expenses]

----------------------------------------------------------------------------
\* One run of the script

\* lines 85-122: a rerun starts; fetch, summary metrics, the add form
TopSection ==
    /\ pc = "idle"
    /\ \E e \in Events :
        /\ e = "add" => nextId <= MaxId
        /\ ev' = e
    /\ df' = fetch_transactions(pend)
    /\ views' = [NoViews EXCEPT !.summary = Summary(df')]
    /\ form' = DefaultForm
    /\ row_id' = 0
    /\ i' = 0
    /\ status' = "none"
    /\ pc' = "add_form"
    /\ UNCHANGED <<db, pend, nextId, rowcount, raised, scen, calls, prev, crashes>>

\* line 124 with submit = False
AddNotSubmitted ==
    /\ pc = "add_form"
    /\ ev # "add"
    /\ pc' = "display"
    /\ UNCHANGED <<db, pend, nextId, rowcount, raised, ev, form, row_id, df, i, views,
                   status, scen, calls, prev, crashes>>

\* lines 124-128: the submitted add form gets a warning
AddRejected ==
    /\ pc = "add_form"
    /\ ev = "add"
    /\ \E f \in Forms :
        /\ FormWarning(f) # "none"
        /\ form' = f
        /\ status' = FormWarning(f)
    /\ scen' = -1
    /\ pc' = "display"
    /\ UNCHANGED <<db, pend, nextId, rowcount, raised, ev, row_id, df, i, views, calls, prev, crashes>>

\* lines 129-132 up to line 43: add_transaction (INSERT, commit), re-fetch,
\* and recalc_balance's running total; its UPDATE loop follows
AddAccepted ==
    /\ pc = "add_form"
    /\ ev = "add"
    /\ \E f \in Forms :
        /\ FormWarning(f) = "none"
        /\ form' = f
        /\ db' = add_transaction(pend, nextId, f)
        /\ scen' = C7_Advance(scen, FormAction("add", 0, f))
    /\ pend' = db'
    /\ nextId' = nextId + 1
    /\ rowcount' = 1
    /\ df' = RunningBalances(fetch_transactions(pend'))
    /\ i' = 0
    /\ pc' = "recalc"
    /\ UNCHANGED <<raised, ev, row_id, views, status, calls, prev, crashes>>

\* faulty variant: each UPDATE of the loop is committed on its own (autocommit)
RecalcWriteAutocommit ==
    /\ pc = "recalc"
    /\ i < Len(df)
    /\ pend' = WriteBalance(pend, df, i + 1)
    /\ db' = pend'
    /\ rowcount' = Matched(pend, df[i + 1].id)
    /\ i' = i + 1
    /\ UNCHANGED <<nextId, raised, pc, ev, form, row_id, df, views, status, scen, calls,
                   prev, crashes>>

\* lines 45-46: one UPDATE of the loop, inside the connection's open transaction
RecalcWrite ==
    /\ pc = "recalc"
    /\ i < Len(df)
    /\ pend' = WriteBalance(pend, df, i + 1)
    /\ rowcount' = Matched(pend, df[i + 1].id)
    /\ i' = i + 1
    /\ UNCHANGED <<db, nextId, raised, pc, ev, form, row_id, df, views, status, scen, calls, prev, crashes>>

\* lines 47-48 and the caller's st.success (133, 188, 194)
RecalcCommit ==
    /\ pc = "recalc"
    /\ i = Len(df)
    /\ db' = pend
    /\ status' = CASE ev = "add" -> "added"
                   [] ev = "edit" -> "updated"
                   [] OTHER -> "deleted"
    /\ pc' = IF ev = "add" THEN "display" ELSE "idle"
    /\ UNCHANGED <<pend, nextId, rowcount, raised, ev, form, row_id, df, i, views, scen, calls, prev, crashes>>

\* lines 138-170: table, export, and the selectbox with the id parsed from it
DisplaySection ==
    /\ pc = "display"
    /\ views' = [views EXCEPT !.table = df, !.export = df,
                              !.selector = SelectorOptions(df)]
    /\ IF df # <<>>
       THEN \E r \in SelectableIds(df) : row_id' = r
       ELSE row_id' = 0
    /\ pc' = "edit_form"
    /\ UNCHANGED <<db, pend, nextId, rowcount, raised, ev, form, df, i, status, scen, calls, prev, crashes>>

\* line 163 false, or neither button of the edit section pressed
EditDeleteNotPressed ==
    /\ pc = "edit_form"
    /\ df = <<>> \/ ev \notin {"edit", "delete"}
    /\ pc' = "idle"
    /\ UNCHANGED <<db, pend, nextId, rowcount, raised, ev, form, row_id, df, i, views,
                   status, scen, calls, prev, crashes>>

\* lines 179-183: the submitted edit form gets a warning
EditRejected ==
    /\ pc = "edit_form"
    /\ df # <<>>
    /\ ev = "edit"
    /\ \E f \in Forms :
        /\ FormWarning(f) # "none"
        /\ form' = f
        /\ status' = FormWarning(f)
    /\ scen' = -1
    /\ pc' = "idle"
    /\ UNCHANGED <<db, pend, nextId, rowcount, raised, ev, row_id, df, i, views, calls, prev, crashes>>

\* lines 184-187 up to line 43: update_transaction (UPDATE, commit), re-fetch,
\* running total
EditAccepted ==
    /\ pc = "edit_form"
    /\ df # <<>>
    /\ ev = "edit"
    /\ \E f \in Forms :
        /\ FormWarning(f) = "none"
        /\ form' = f
        /\ db' = update_transaction(pend, row_id, f)
        /\ scen' = C7_Advance(scen, FormAction("edit", row_id, f))
    /\ pend' = db'
    /\ rowcount' = Matched(pend, row_id)
    /\ df' = RunningBalances(fetch_transactions(pend'))
    /\ i' = 0
    /\ pc' = "recalc"
    /\ UNCHANGED <<nextId, raised, ev, row_id, views, status, calls, prev, crashes>>

\* lines 190-193 up to line 43: delete_transaction (DELETE, commit), re-fetch,
\* running total
DeletePressed ==
    /\ pc = "edit_form"
    /\ df # <<>>
    /\ ev = "delete"
    /\ db' = delete_transaction(pend, row_id)
    /\ pend' = db'
    /\ rowcount' = Matched(pend, row_id)
    /\ scen' = C7_Advance(scen, [op |-> "delete", id |-> row_id, trans_date |-> <<>>,
                                 income |-> 0, expenses |-> 0])
    /\ df' = RunningBalances(fetch_transactions(pend'))
    /\ i' = 0
    /\ pc' = "recalc"
    /\ UNCHANGED <<nextId, raised, ev, form, row_id, views, status, calls, prev, crashes>>

Next ==
    \/ TopSection
    \/ AddNotSubmitted
    \/ AddRejected
    \/ AddAccepted
    \/ RecalcWrite
    \/ RecalcCommit
    \/ DisplaySection
    \/ EditDeleteNotPressed
    \/ EditRejected
    \/ EditAccepted
    \/ DeletePressed

Spec == Init /\ [][Next]_vars

----------------------------------------------------------------------------
\* The process stops in the middle of a run.  The connection's open
\* transaction was never committed, so SQLite rolls it back; the process's
\* variables are gone.  Only i is kept, as the record of how many UPDATEs of
\* the interrupted recalc_balance loop had executed.
Crash ==
    /\ pc # "idle"
    /\ crashes < MaxCrashes
    /\ pend' = db
    /\ pc' = "idle"
    /\ status' = "crashed"
    /\ scen' = -1
    /\ ev' = "none"
    /\ form' = DefaultForm
    /\ row_id' = 0
    /\ df' = <<>>
    /\ views' = NoViews
    /\ rowcount' = 0
    /\ crashes' = crashes + 1
    /\ UNCHANGED <<db, nextId, raised, i, calls, prev>>

NextCrash == Next \/ Crash

SpecCrash == Init /\ [][NextCrash]_vars

----------------------------------------------------------------------------
\* The helper functions called directly, with any id and without the UI's
\* checks (lines 50-69, and lines 32-48 for a recalculation pass)

StoreForms ==
    { f \in Forms : f.description = <<"a">> /\ f.income + f.expenses \in {100, 40} }

CallAdd ==
    /\ calls < MaxCalls
    /\ nextId <= MaxId
    /\ \E f \in StoreForms : db' = add_transaction(pend, nextId, f)
    /\ pend' = db'
    /\ nextId' = nextId + 1
    /\ rowcount' = 1
    /\ raised' = "none"
    /\ ev' = "add"
    /\ row_id' = 0
    /\ prev' = ev
    /\ calls' = calls + 1
    /\ UNCHANGED ui

CallUpdate ==
    /\ calls < MaxCalls
    /\ \E rid \in Ids, f \in StoreForms :
        /\ db' = update_transaction(pend, rid, f)
        /\ rowcount' = Matched(pend, rid)
        /\ row_id' = rid
    /\ pend' = db'
    /\ raised' = "none"
    /\ ev' = "edit"
    /\ prev' = ev
    /\ calls' = calls + 1
    /\ UNCHANGED <<nextId, ui>>

CallDelete ==
    /\ calls < MaxCalls
    /\ \E rid \in Ids :
        /\ db' = delete_transaction(pend, rid)
        /\ rowcount' = Matched(pend, rid)
        /\ row_id' = rid
    /\ pend' = db'
    /\ raised' = "none"
    /\ ev' = "delete"
    /\ prev' = ev
    /\ calls' = calls + 1
    /\ UNCHANGED <<nextId, ui>>

\* recalc_balance(fetch_transactions()) run to its commit
CallRecalc ==
    /\ calls < MaxCalls
    /\ LET d == RunningBalances(fetch_transactions(pend))
       IN  /\ db' = WriteBalances(pend, d, Len(d))
           /\ rowcount' = IF Len(d) > 0 THEN 1 ELSE rowcount
    /\ pend' = db'
    /\ raised' = "none"
    /\ ev' = "recalc"
    /\ row_id' = 0
    /\ prev' = ev
    /\ calls' = calls + 1
    /\ UNCHANGED <<nextId, ui>>

NextStore == CallAdd \/ CallUpdate \/ CallDelete \/ CallRecalc

SpecStore == Init /\ [][NextStore]_vars

----------------------------------------------------------------------------
\* The balance rule of the data model, stated on the stored rows themselves

DayNumber(d) == (d[1] * 12 + d[2]) * 31 + d[3]

\* y is x, or comes before x by date, ties broken by id
UpTo(t, y, x) ==
    \/ DayNumber(t[y].trans_date) < DayNumber(t[x].trans_date)
    \/ DayNumber(t[y].trans_date) = DayNumber(t[x].trans_date) /\ y <= x

RECURSIVE NetOver(_, _)
NetOver(t, S) ==
    IF S = {} THEN 0
    ELSE LET y == CHOOSE a \in S : TRUE
         IN  (t[y].income - t[y].expenses) + NetOver(t, S \ {y})

PrefixNet(t, x) == NetOver(t, { y \in DOMAIN t : UpTo(t, y, x) })

PrefixSumsHold(t) == \A x \in DOMAIN t : t[x].balance = PrefixNet(t, x)

\* 1-based position of x in the date/id order
Rank(t, x) == Cardinality({ y \in DOMAIN t : UpTo(t, y, x) })

----------------------------------------------------------------------------
\* C1: whenever a user action has completed (the script is idle again), every
\* stored balance is the sum of income - expenses over the stored rows up to and
\* including it in date order, ties by id; also after an add or edit that gives
\* a row a date earlier than existing rows.
C1_BalancesArePrefixSums == pc = "idle" => PrefixSumsHold(db)

\* an add has completed whose row is dated before an older row
C1_Witness ==
    /\ pc = "idle"
    /\ status = "added"
    /\ \E x \in DOMAIN db :
        /\ x < nextId - 1
        /\ DayNumber(db[nextId - 1].trans_date) < DayNumber(db[x].trans_date)

\* an empty description, or both amounts zero
C2_Invalid(f) == f.description = <<>> \/ (f.income = 0 /\ f.expenses = 0)

\* C2: a submitted add form with an empty description, or with income = 0 and
\* expenses = 0, gets a warning: add_transaction is not called (no id is used,
\* the run goes on to the display section) and the stored rows are unchanged.
C2_RejectedAddLeavesStore ==
    [][(pc = "add_form" /\ ev = "add" /\ pc' # "add_form" /\ C2_Invalid(form'))
        => /\ pc' = "display"
           /\ status' \in {"warn_description", "warn_amounts"}
           /\ db' = db
           /\ pend' = pend
           /\ nextId' = nextId]_vars

\* a zero-amount submission was turned away from a store that holds rows
C2_Witness ==
    /\ pc = "display"
    /\ ev = "add"
    /\ status = "warn_amounts"
    /\ form.income = 0 /\ form.expenses = 0
    /\ DOMAIN db # {}

\* C3: update_transaction and delete_transaction on an id that matches no row
\* raise NotFoundError (so a second delete of the same id fails).
C3_AbsentIdRaises ==
    (calls > 0 /\ ev \in {"edit", "delete"} /\ rowcount = 0) => raised = "NotFoundError"

C5_StoredRowsValid ==
    \A x \in DOMAIN db :
        /\ db[x].description # <<>>
        /\ db[x].income > 0 \/ db[x].expenses > 0

\* an edit has replaced the values of a stored row
C5_Witness ==
    /\ pc = "idle"
    /\ status = "updated"
    /\ row_id \in DOMAIN db
    /\ db[row_id].income = form.income

\* C6: a recalculation pass run directly after another one, on the unchanged
\* store, leaves every row as the first pass left it: same balances, same
\* other columns, same rows.
C6_RecalcIdempotent ==
    [][(ev = "recalc" /\ ev' = "recalc" /\ calls' = calls + 1) => db' = db]_vars

\* two passes in a row over two rows stored out of date order
C6_Witness ==
    /\ ev = "recalc"
    /\ prev = "recalc"
    /\ \E x, y \in DOMAIN db :
        x < y /\ DayNumber(db[y].trans_date) < DayNumber(db[x].trans_date)

\* the stored balances, by id
C7_StoredBalances == [x \in DOMAIN db |-> db[x].balance]

\* C7: from the empty store, add(2024-01-01, 100, 0); add(2024-01-02, 0, 40);
\* edit of row 1 to income 200; delete of row 2 leave the stored balances
\* <<100>>, <<100, 60>>, <<200, 160>>, <<200>> (listed by id).
C7_ScenarioBalances ==
    pc = "idle" =>
        /\ scen = 1 => C7_StoredBalances = <<100>>
        /\ scen = 2 => C7_StoredBalances = <<100, 60>>
        /\ scen = 3 => C7_StoredBalances = <<200, 160>>
        /\ scen = 4 => C7_StoredBalances = <<200>>

\* the four actions of the scenario have completed
C7_Witness == pc = "idle" /\ scen = 4

\* C8 as stated: when the process stops after some but not all UPDATEs of a
\* pass, the rows whose UPDATE had executed hold their rewritten balance in the
\* persisted store.
C8_ExecutedWritesArePersisted ==
    (status = "crashed" /\ 0 < i /\ i < Cardinality(DOMAIN db)) =>
        \A x \in DOMAIN db : Rank(db, x) <= i => db[x].balance = PrefixNet(db, x)

\* C8 as amended: the pass's UPDATEs become durable together, at its commit.
\* A step that changes the persisted balance of a row leaves every persisted
\* balance equal to its prefix sum, and a process stop persists nothing.
C8_RewriteCommitsAtOnce ==
    [][/\ (\E x \in DOMAIN db \cap DOMAIN db' : db'[x].balance # db[x].balance)
            => PrefixSumsHold(db')
       /\ crashes' # crashes => db' = db]_vars

\* the process stopped inside the loop, and the persisted store breaks the rule
C8_Witness ==
    /\ status = "crashed"
    /\ 0 < i
    /\ i < Cardinality(DOMAIN db)
    /\ ~PrefixSumsHold(db)

\* C9: when a run that added, updated or deleted a row has finished, the
\* summary, the table, the export and the selector it rendered show the stored,
\* recalculated rows.
C9_ViewsShowRefreshed ==
    (pc = "idle" /\ status \in {"added", "updated", "deleted"}) =>
        LET cur == fetch_transactions(db)
        IN  /\ views.summary = Summary(cur)
            /\ views.table = cur
            /\ views.export = cur
            /\ views.selector = SelectorOptions(cur)

\* C10: right after the UI has called update_transaction or delete_transaction
\* (the recalculation has not written yet), the statement has matched a row:
\* the id was in the store at the call.
C10_HandlersHitStoredRow ==
    (pc = "recalc" /\ i = 0 /\ ev \in {"edit", "delete"}) => rowcount = 1

\* a delete was called on a store that had a second row
C10_Witness ==
    /\ pc = "recalc"
    /\ i = 0
    /\ ev = "delete"
    /\ row_id \notin DOMAIN db
    /\ DOMAIN db # {}

====
